---- MODULE Spec2Model ----
(***************************************************************************)
(* State-machine model of google_maps_scraper.py: the URL router of main,  *)
(* the feed harvester scrape_search_results, the field extractor           *)
(* extract_place_details and the email resolver                            *)
(* extract_email_from_website.                                             *)
(*                                                                         *)
(* Strings the code inspects character by character (URLs given to         *)
(* is_place_url, email matches, the review-count text) are sequences of    *)
(* one-character strings.  Listing references read from the feed are       *)
(* opaque (the code only tests them for truthiness and set membership):    *)
(* they are the numbers 1..NumHrefs, and NoHref stands for a missing or    *)
(* empty href.  A Python value that may be None is <<>> (None) or <<v>>.   *)
(***************************************************************************)
EXTENDS Integers, Sequences, FiniteSets, TLC

\* ------------------------------------------------------------------ bounds
NumHrefs == 2      \* distinct listing references the feed can render
MaxSnapLen == 2    \* anchors in one rendered snapshot of the feed
MaxTarget == 2     \* largest max_results explored (the smallest is -1)
MaxMatches == 3    \* email-shaped matches found on one website

\* ----------------------------------------------------------- program constants
STAGNATION_LIMIT == 3

\* ------------------------------------------------------------------ helpers
None == <<>>
Some(v) == <<v>>

Range(s) == {s[i] : i \in 1..Len(s)}

SeqsUpTo(S, n) == UNION {[1..k -> S] : k \in 0..n}

\* str.startswith(prefix)
StartsWith(s, prefix) ==
    /\ Len(prefix) <= Len(s)
    /\ SubSeq(s, 1, Len(prefix)) = prefix

\* str.endswith(suffix)
EndsWith(s, suffix) ==
    /\ Len(suffix) <= Len(s)
    /\ SubSeq(s, Len(s) - Len(suffix) + 1, Len(s)) = suffix

\* sub in s
Contains(s, sub) ==
    \E i \in 1..(Len(s) - Len(sub) + 1) : SubSeq(s, i, i + Len(sub) - 1) = sub

\* str.lower(), on the letters that occur in the model's strings
LowerChar(c) ==
    CASE c = "I" -> "i" [] c = "N" -> "n" [] c = "F" -> "f" [] c = "O" -> "o"
      [] c = "P" -> "p" [] c = "G" -> "g" [] c = "S" -> "s" [] c = "V" -> "v"
      [] OTHER -> c

Lower(s) == [i \in 1..Len(s) |-> LowerChar(s[i])]

\* ------------------------------------------------------------- is_place_url
PLACE_MARKER == <<"/","p","l","a","c","e","/">>

PLACE_PREFIX ==
    <<"h","t","t","p","s",":","/","/","w","w","w",".","g","o","o","g","l","e",
      ".","c","o","m","/","m","a","p","s","/","p","l","a","c","e">>

is_place_urlM(u) == StartsWith(u, PLACE_PREFIX)

is_place_url(u) == Contains(u, PLACE_MARKER) \/ StartsWith(u, PLACE_PREFIX)

\* ------------------------------------------------ extract_email_from_website
IMAGE_SUFFIXES ==
    {<<".","p","n","g">>,
     <<".","j","p","g">>,
     <<".","j","p","e","g">>,
     <<".","g","i","f">>,
     <<".","w","e","b","p">>,
     <<".","s","v","g">>}

PREFERRED_PREFIXES ==
    {<<"i","n","f","o","@">>,
     <<"c","o","n","t","a","c","t","@">>,
     <<"h","e","l","l","o","@">>,
     <<"s","u","p","p","o","r","t","@">>}

\* e.lower().endswith(('.png', '.jpg', '.jpeg', '.gif', '.webp', '.svg'))
IsImageMatch(e) == \E suf \in IMAGE_SUFFIXES : EndsWith(Lower(e), suf)

\* email.lower().startswith(('info@', 'contact@', 'hello@', 'support@'))
HasPreferredPrefix(e) == \E pre \in PREFERRED_PREFIXES : StartsWith(Lower(e), pre)

\* valid_emails = [e for e in emails if not e.lower().endswith(...)]
ValidEmails(emails) == SelectSeq(emails, LAMBDA e : ~IsImageMatch(e))

\* for email in valid_emails: if email.lower().startswith(...): return email
RECURSIVE FirstPreferred(_)
FirstPreferred(valid) ==
    IF valid = <<>> THEN None
    ELSE IF HasPreferredPrefix(Head(valid)) THEN Some(Head(valid))
    ELSE FirstPreferred(Tail(valid))

\* Lines 38-44 and the fall-through to `return None` of line 51.
SelectEmailM(emails) ==
    LET valid_emails == ValidEmails(emails)
    IN  IF valid_emails # <<>> THEN Some(valid_emails[1]) ELSE None

SelectEmail(emails) ==
    LET valid_emails == ValidEmails(emails)
        preferred == FirstPreferred(valid_emails)
    IN  IF valid_emails # <<>>
        THEN IF preferred # None THEN preferred ELSE Some(valid_emails[1])
        ELSE None

\* `not website_url`: None and the empty string are falsy.
Falsy(opt) == opt = None \/ opt = Some("")

\* The resolver's frame.  bound: the local new_page is assigned; opens: calls
\* of context.new_page() that returned a page; closes: calls of
\* new_page.close(), whether they returned or raised.
EmStart(website_url) ==
    [pc |-> "check", website_url |-> website_url, bound |-> FALSE, opens |-> 0,
     closes |-> 0, emails |-> <<>>, ret |-> None, raisedAt |-> "none"]

\* Lines 27-28.
EmCheck(em) ==
    IF Falsy(em.website_url) THEN [em EXCEPT !.pc = "done"]
    ELSE [em EXCEPT !.pc = "new_page"]

\* Line 30.
EmNewPage(em, outcome) ==
    IF outcome = "raise"
    THEN [em EXCEPT !.pc = "except", !.raisedAt = "new_page"]
    ELSE [em EXCEPT !.pc = "goto", !.bound = TRUE, !.opens = @ + 1]

\* Line 32.
EmGoto(em, outcome) ==
    IF outcome = "raise"
    THEN [em EXCEPT !.pc = "except", !.raisedAt = "goto"]
    ELSE [em EXCEPT !.pc = "content"]

\* Lines 33-34: matches is what re.findall finds in the page content.
EmContent(em, outcome, matches) ==
    IF outcome = "raise"
    THEN [em EXCEPT !.pc = "except", !.raisedAt = "content"]
    ELSE [em EXCEPT !.pc = "close", !.emails = matches]

\* Line 35.
EmClose(em, outcome) ==
    IF outcome = "raise"
    THEN [em EXCEPT !.pc = "except", !.closes = @ + 1, !.raisedAt = "close"]
    ELSE [em EXCEPT !.pc = "select", !.closes = @ + 1]

\* Lines 38-44, 51.
EmSelect(em) == [em EXCEPT !.pc = "done", !.ret = SelectEmail(em.emails)]

\* Lines 45-51: the handler closes the page if the name is bound (an unbound
\* name raises NameError, which the inner handler swallows like any failure
\* of the close itself, so the outcome of this close does not matter).
EmExcept(em) ==
    IF em.bound
    THEN [em EXCEPT !.pc = "done", !.closes = @ + 1, !.ret = None]
    ELSE [em EXCEPT !.pc = "done", !.ret = None]

\* One step of the resolver against a website whose behaviour is site.
EmStep(em, site) ==
    CASE em.pc = "check" -> EmCheck(em)
      [] em.pc = "new_page" -> EmNewPage(em, site.new_page)
      [] em.pc = "goto" -> EmGoto(em, site.goto)
      [] em.pc = "content" -> EmContent(em, site.content, site.matches)
      [] em.pc = "close" -> EmClose(em, site.close)
      [] em.pc = "select" -> EmSelect(em)
      [] em.pc = "except" -> EmExcept(em)
      [] OTHER -> em

RECURSIVE EmRun(_, _)
EmRun(em, site) == IF em.pc = "done" THEN em ELSE EmRun(EmStep(em, site), site)

\* The whole call, lines 26-51.
extract_email_from_website(website_url, site) ==
    EmRun(EmStart(website_url), site).ret

\* Email-shaped matches a website can hold.
EmailPool ==
    {<<"j","o","b","s","@","x",".","c","o","m">>,
     <<"i","n","f","o","@","x",".","c","o","m">>,
     <<"s","a","l","e","s","@","x",".","c","o","m">>,
     <<"S","u","p","p","o","r","t","@","y",".","i","o">>,
     <<"a","@","2","x",".","p","n","g">>,
     <<"i","n","f","o","@","b",".","S","V","G">>,
     <<"c","o","n","t","a","c","t","@","c",".","j","p","e","g">>,
     <<"h","e","l","l","o","@","d",".","c","o">>}

\* ------------------------------------------------------ extract_place_details
ElemFields ==
    {"Company Name", "Rating", "Review Count", "Category", "Address",
     "Phone Number", "Website"}

DataKeys == ElemFields \cup {"Email", "Google Maps URL"}

\* Lines 62-72.
InitialDataM(url) ==
    [k \in DataKeys |-> IF k = "Google Maps URL" THEN Some(0) ELSE None]

InitialData(url) ==
    [k \in DataKeys |-> IF k = "Google Maps URL" THEN Some(url) ELSE None]

\* text.replace(c, "")
RemoveChar(s, c) == SelectSeq(s, LAMBDA x : x # c)

DIGITS == <<"0","1","2","3","4","5","6","7","8","9">>

IsDigit(c) == c \in Range(DIGITS)

DigitVal(c) == (CHOOSE i \in 1..Len(DIGITS) : DIGITS[i] = c) - 1

\* re.findall(r'\d+', text): the maximal digit runs, left to right.
RECURSIVE DigitRunsFrom(_, _, _, _)
DigitRunsFrom(s, i, cur, acc) ==
    LET flushed == IF cur # <<>> THEN Append(acc, cur) ELSE acc
    IN  IF i > Len(s) THEN flushed
        ELSE IF IsDigit(s[i]) THEN DigitRunsFrom(s, i + 1, Append(cur, s[i]), acc)
        ELSE DigitRunsFrom(s, i + 1, <<>>, flushed)

DigitRuns(s) == DigitRunsFrom(s, 1, <<>>, <<>>)

\* ''.join(nums)
RECURSIVE Join(_)
Join(ss) == IF ss = <<>> THEN <<>> ELSE Head(ss) \o Join(Tail(ss))

\* int(digits), for a non-empty string of decimal digits
RECURSIVE ToInt(_)
ToInt(ds) ==
    IF ds = <<>> THEN 0
    ELSE 10 * ToInt(SubSeq(ds, 1, Len(ds) - 1)) + DigitVal(ds[Len(ds)])

\* Lines 91-95: None when the text holds no digit.
ParseReviewCountM(raw) ==
    LET text == RemoveChar(RemoveChar(RemoveChar(raw, "("), ")"), ",")
        nums == DigitRuns(text)
    IN  IF nums # <<>> THEN Some(ToInt(nums[1])) ELSE None

ParseReviewCount(raw) ==
    LET text == RemoveChar(RemoveChar(RemoveChar(raw, "("), ")"), ",")
        nums == DigitRuns(text)
    IN  IF nums # <<>> THEN Some(ToInt(Join(nums))) ELSE None

\* A listing page is pg: goto is the outcome of the navigation; elem[f] says
\* how field f's element behaves ("visible": is_visible() is true and the read
\* returns text[f]; "hidden": missing or not visible; "raises": the adapter
\* raises while the element is located or read); site is the behaviour of
\* the business website.
\* One field in a try block of its own (lines 75-80, 100-105, 108-113,
\* 116-121): element.inner_text() is text[f].
ReadTextFieldM(data, pg, f) ==
    IF pg.elem[f] # "raises" THEN [data EXCEPT ![f] = Some(pg.text[f])] ELSE data

ReadTextField(data, pg, f) ==
    IF pg.elem[f] = "visible" THEN [data EXCEPT ![f] = Some(pg.text[f])] ELSE data

CompanyNameBlock(data, pg) == ReadTextField(data, pg, "Company Name")

\* Lines 83-97: Rating and Review Count share one try block.
RatingReviewsBlock(data, pg) ==
    IF pg.elem["Rating"] = "raises" THEN data
    ELSE LET d1 == ReadTextField(data, pg, "Rating")
         IN  IF pg.elem["Review Count"] = "visible"
             THEN LET n == ParseReviewCount(pg.text["Review Count"])
                  IN  IF n # None THEN [d1 EXCEPT !["Review Count"] = n] ELSE d1
             ELSE d1

CategoryBlock(data, pg) == ReadTextField(data, pg, "Category")

AddressBlock(data, pg) == ReadTextField(data, pg, "Address")

PhoneBlock(data, pg) == ReadTextField(data, pg, "Phone Number")

\* Lines 124-129: get_attribute("href") is text["Website"], None when the
\* anchor has no href.
WebsiteBlock(data, pg) ==
    IF pg.elem["Website"] = "visible"
    THEN [data EXCEPT !["Website"] = pg.text["Website"]]
    ELSE data

\* Line 131.
ResolverCalledM(data, extract_email) == ~Falsy(data["Website"])

ResolverCalled(data, extract_email) == extract_email /\ ~Falsy(data["Website"])

\* Lines 131-132.
EmailBlock(data, extract_email, pg) ==
    IF ResolverCalled(data, extract_email)
    THEN [data EXCEPT !["Email"] = extract_email_from_website(data["Website"], pg.site)]
    ELSE data

\* Lines 74-134.
ExtractFields(url, extract_email, pg) ==
    EmailBlock(
        WebsiteBlock(
            PhoneBlock(
                AddressBlock(
                    CategoryBlock(
                        RatingReviewsBlock(
                            CompanyNameBlock(InitialData(url), pg), pg), pg), pg), pg), pg),
        extract_email, pg)

\* Lines 56-59: only PlaywrightTimeoutError is caught; any other failure of
\* the navigation ("error") leaves the function as an exception.
GotoRaises(outcome) == outcome = "error"

\* The whole call, lines 53-134.
extract_place_details(url, extract_email, pg) ==
    IF GotoRaises(pg.goto)
    THEN [raised |-> TRUE, warned |-> FALSE, data |-> None]
    ELSE [raised |-> FALSE, warned |-> pg.goto = "timeout",
          data |-> ExtractFields(url, extract_email, pg)]

\* Review-count texts a listing can show.
ReviewTexts ==
    {<<"(","1",",","2","3","4"," ","r","e","v","i","e","w","s",")">>,
     <<"(","1","2",")">>,
     <<"r","e","v","i","e","w","s">>,
     <<"7"," ","o","f"," ","1","0">>}

\* Sample listing pages for the calls made by the batch loop and by main.
TextOf ==
    [f \in ElemFields |->
        CASE f = "Review Count" -> <<"(","1",",","2","3","4"," ","r","e","v","i","e","w","s",")">>
          [] f = "Website" -> Some("http://biz")
          [] OTHER -> f]

QuietSite ==
    [new_page |-> "ok", goto |-> "ok", content |-> "ok", close |-> "ok",
     matches |-> <<>>]

MailSite ==
    [new_page |-> "ok", goto |-> "ok", content |-> "ok", close |-> "ok",
     matches |-> <<<<"i","n","f","o","@","x",".","c","o","m">>>>]

PageAllVisible ==
    [goto |-> "ok", elem |-> [f \in ElemFields |-> "visible"], text |-> TextOf,
     site |-> MailSite]

PageTimedOut ==
    [goto |-> "timeout",
     elem |-> [f \in ElemFields |-> IF f = "Company Name" THEN "visible" ELSE "hidden"],
     text |-> TextOf, site |-> QuietSite]

PageBroken ==
    [goto |-> "error", elem |-> [f \in ElemFields |-> "hidden"], text |-> TextOf,
     site |-> QuietSite]

ListingPages == {PageAllVisible, PageTimedOut, PageBroken}

\* ----------------------------------------------------------------- state
VARIABLES
    pc,                   \* position in the program
    url,                  \* args.url, or the url argument of extract_place_details
    max_results,          \* args.max
    extract_email,        \* args.emails
    feed,                 \* hrefs of the a.hfpxzc anchors the page renders now
    end_marker,           \* the results page shows the end-of-list marker
    links,                \* hrefs of the anchors of the snapshot being read
    idx,                  \* position of the for loop in links
    places,
    processed_urls,
    last_places_count,
    consecutive_no_new,
    i,                    \* enumerate index of the batch loop
    results,
    exc,                  \* the exception that left the program, or "none"
    firstSeen,            \* history: distinct non-empty hrefs in the order first read
    iters,                \* history: iterations of the while loop started
    scrolls,              \* history: scroll commands issued
    added,                \* history: references added by the current iteration
    zeroRun,              \* history: consecutive finished iterations that added none
    epd_calls,            \* history: url arguments of extract_place_details calls
    epd_raised,           \* history: whether each of those calls raised
    search_calls,         \* history: calls of scrape_search_results
    direct_calls,         \* history: calls of extract_place_details made by main
    stop_reason,          \* history: which exit ended the while loop
    warned,               \* a navigation-timeout warning was logged
    data,                 \* the record extract_place_details is filling
    page,                 \* the listing page extract_place_details is reading
    em                    \* the frame of extract_email_from_website

vars ==
    <<pc, url, max_results, extract_email, feed, end_marker, links, idx,
      places, processed_urls, last_places_count, consecutive_no_new, i, results,
      exc, firstSeen, iters, scrolls, added, zeroRun, epd_calls, epd_raised,
      search_calls, direct_calls, stop_reason, warned, data, page, em>>

argVars == <<url, max_results, extract_email>>

loopVars ==
    <<links, idx, places, processed_urls, last_places_count, consecutive_no_new,
      firstSeen, iters, added, zeroRun>>

batchVars == <<i, results, epd_calls, epd_raised>>

fieldVars == <<data, page, em>>

\* --------------------------------------------------------------- inputs
NoHref == 0

Hrefs == 1..NumHrefs

\* What one read of page.locator("a.hfpxzc").all() can show.
Snapshots == SeqsUpTo(Hrefs \cup {NoHref}, MaxSnapLen)

\* A search URL and a listing URL.
SEARCH_URL == <<"m","a","p","s","?","q","=","x">>

LISTING_URL ==
    <<"h","t","t","p","s",":","/","/","w","w","w",".","g","o","o","g","l","e",".","c","o","m","/","m","a","p","s","/","p","l","a","c","e","/","C","a","f","e">>

\* URLs for the router: with the prefix and the marker, with the prefix only,
\* with the marker only, with neither, and two near misses of both.
UrlPool ==
    {SEARCH_URL, LISTING_URL,
     <<"h","t","t","p","s",":","/","/","w","w","w",".","g","o","o","g","l","e",".","c","o","m","/","m","a","p","s","/","p","l","a","c","e","s">>,
     <<"h","t","t","p","s",":","/","/","m","a","p","s",".","a","p","p","/","p","l","a","c","e","/","x">>,
     <<"h","t","t","p",":","/","/","w","w","w",".","g","o","o","g","l","e",".","c","o","m","/","m","a","p","s","/","p","l","a","c","e">>,
     <<"h","t","t","p","s",":","/","/","a",".","i","o","/","p","l","a","c","e">>}

NoPage == [goto |-> "none", elem |-> [f \in ElemFields |-> "unqueried"],
           text |-> [f \in ElemFields |-> None], site |-> QuietSite]

\* ------------------------------------------------------------------ main
\* The state when main has parsed its arguments and opened the browser page.
Init ==
    /\ pc = "main"
    /\ url \in {SEARCH_URL, LISTING_URL}
    /\ max_results \in (-1)..MaxTarget
    /\ extract_email \in BOOLEAN
    /\ feed = <<>>
    /\ end_marker = FALSE
    /\ links = <<>>
    /\ idx = 0
    /\ places = <<>>
    /\ processed_urls = {}
    /\ last_places_count = 0
    /\ consecutive_no_new = 0
    /\ i = 0
    /\ results = <<>>
    /\ exc = "none"
    /\ firstSeen = <<>>
    /\ iters = 0
    /\ scrolls = 0
    /\ added = 0
    /\ zeroRun = 0
    /\ epd_calls = <<>>
    /\ epd_raised = <<>>
    /\ search_calls = 0
    /\ direct_calls = 0
    /\ stop_reason = "none"
    /\ warned = FALSE
    /\ data = None
    /\ page = None
    /\ em = None

\* Lines 273-279: the router.
Route ==
    /\ pc = "main"
    /\ IF is_place_url(url)
       THEN pc' = "direct" /\ UNCHANGED search_calls
       ELSE pc' = "search_goto" /\ search_calls' = search_calls + 1
    /\ UNCHANGED <<argVars, feed, end_marker, loopVars, batchVars, exc, scrolls,
                   direct_calls, stop_reason, warned, fieldVars>>

\* Lines 275-284: the single-listing path; the one-element list goes to
\* save_data and the browser closes.
DirectExtract ==
    /\ pc = "direct"
    /\ \E pg \in ListingPages :
         LET r == extract_place_details(url, extract_email, pg)
         IN  /\ direct_calls' = direct_calls + 1
             /\ epd_calls' = Append(epd_calls, url)
             /\ epd_raised' = Append(epd_raised, r.raised)
             /\ warned' = (warned \/ r.warned)
             /\ IF r.raised
                THEN /\ pc' = "raised"
                     /\ exc' = "Error"
                     /\ UNCHANGED results
                ELSE /\ pc' = "done"
                     /\ results' = <<r.data>>
                     /\ UNCHANGED exc
    /\ UNCHANGED <<argVars, feed, end_marker, loopVars, i, scrolls, search_calls,
                   stop_reason, fieldVars>>

\* ------------------------------------------------- scrape_search_results
\* Line 139: the navigation is not guarded, so a timeout or any other
\* failure leaves scrape_search_results, and main, as an exception.
SearchGotoRaises(outcome) == outcome # "ok"

SearchGoto ==
    /\ pc = "search_goto"
    /\ \E outcome \in {"ok", "timeout", "error"} :
         IF SearchGotoRaises(outcome)
         THEN /\ pc' = "raised"
              /\ exc' = IF outcome = "timeout" THEN "PlaywrightTimeoutError" ELSE "Error"
              /\ UNCHANGED <<feed, end_marker, warned>>
         ELSE /\ pc' = "cookie"
              /\ feed' \in Snapshots
              /\ end_marker' \in BOOLEAN
              /\ warned' = (warned \/ outcome = "timeout")
              /\ UNCHANGED exc
    /\ UNCHANGED <<argVars, loopVars, batchVars, scrolls, search_calls,
                   direct_calls, stop_reason, fieldVars>>

\* Lines 143-149: the consent prompt; every failure is swallowed.
Cookie ==
    /\ pc = "cookie"
    /\ \E prompt \in {"absent", "clicked", "raises"} : pc' = "locate"
    /\ UNCHANGED <<argVars, feed, end_marker, loopVars, batchVars, exc, scrolls,
                   search_calls, direct_calls, stop_reason, warned, fieldVars>>

\* Lines 152-161: the feed locator and the fresh HarvestState.  Which locator
\* feed_scrollable holds changes nothing later: line 188 asks the adapter.
LocateFeed ==
    /\ pc = "locate"
    /\ \E primary_visible \in BOOLEAN :
         \/ primary_visible          \* feed_scrollable is div[role='feed']
         \/ ~primary_visible         \* feed_scrollable is the fallback locator
    /\ places' = <<>>
    /\ processed_urls' = {}
    /\ last_places_count' = 0
    /\ consecutive_no_new' = 0
    /\ pc' = "while"
    /\ UNCHANGED <<argVars, feed, end_marker, links, idx, firstSeen, iters, added, zeroRun,
                   batchVars, exc, scrolls, search_calls, direct_calls,
                   stop_reason, warned, fieldVars>>

\* Every exit of the while loop lands on lines 205-207, which start the batch
\* loop with an empty result list.
ExitLoopRaises(reason) ==
    /\ stop_reason' = reason
    /\ IF reason \in {"no_container", "scroll_error"}
       THEN pc' = "raised" /\ UNCHANGED <<i, results>>
       ELSE results' = <<>> /\ i' = 1 /\ pc' = "batch"

ExitLoop(reason) ==
    /\ stop_reason' = reason
    /\ results' = <<>>
    /\ i' = 1
    /\ pc' = "batch"

\* Line 163.
LoopCondition(n, target) == n < target

\* Lines 163-165: the loop test and, when it passes, the read of the anchors.
WhileTest ==
    /\ pc = "while"
    /\ IF LoopCondition(Len(places), max_results)
       THEN /\ links' = feed
            /\ idx' = 1
            /\ iters' = iters + 1
            /\ added' = 0
            /\ pc' = "for"
            /\ UNCHANGED <<stop_reason, i, results>>
       ELSE /\ ExitLoop("target")
            /\ UNCHANGED <<links, idx, iters, added>>
    /\ UNCHANGED <<argVars, feed, end_marker, places, processed_urls, last_places_count,
                   consecutive_no_new, firstSeen, zeroRun, epd_calls, epd_raised,
                   exc, scrolls, search_calls, direct_calls, warned, fieldVars>>

\* Line 169.
IsNewM(href, seen) == href # NoHref

IsNewEmpty(href, seen) == href \notin seen

IsNew(href, seen) == href # NoHref /\ href \notin seen

\* Lines 172 and 175.
TargetReachedM(n, target) == n > target

TargetReached(n, target) == n >= target

\* Lines 167-173: one turn of the for loop, or its exhaustion.
ForLink ==
    /\ pc = "for"
    /\ IF idx > Len(links)
       THEN /\ pc' = "check"
            /\ UNCHANGED <<idx, places, processed_urls, firstSeen, added>>
       ELSE LET href == links[idx]
            IN  /\ firstSeen' = IF href # NoHref /\ href \notin Range(firstSeen)
                                THEN Append(firstSeen, href) ELSE firstSeen
                /\ IF IsNew(href, processed_urls)
                   THEN /\ processed_urls' = processed_urls \cup {href}
                        /\ places' = Append(places, href)
                        /\ added' = added + 1
                        /\ IF TargetReached(Len(places'), max_results)
                           THEN pc' = "check" /\ UNCHANGED idx
                           ELSE pc' = "for" /\ idx' = idx + 1
                   ELSE /\ pc' = "for"
                        /\ idx' = idx + 1
                        /\ UNCHANGED <<places, processed_urls, added>>
    /\ UNCHANGED <<argVars, feed, end_marker, links, last_places_count, consecutive_no_new,
                   iters, zeroRun, batchVars, exc, scrolls, search_calls,
                   direct_calls, stop_reason, warned, fieldVars>>

\* Line 180.
StagnantNever(count) == FALSE

StagnantM(count) == count >= STAGNATION_LIMIT - 1

Stagnant(count) == count >= STAGNATION_LIMIT

\* Lines 175-185: the target test and the stagnation counter.  The snapshot
\* is dead after the for loop (line 165 rebinds it), so it is dropped here.
Check ==
    /\ pc = "check"
    /\ zeroRun' = IF added = 0 THEN zeroRun + 1 ELSE 0
    /\ links' = <<>>
    /\ idx' = 0
    /\ IF TargetReached(Len(places), max_results)
       THEN /\ ExitLoop("target")
            /\ UNCHANGED <<consecutive_no_new, last_places_count>>
       ELSE IF Len(places) = last_places_count
       THEN /\ consecutive_no_new' = consecutive_no_new + 1
            /\ IF Stagnant(consecutive_no_new')
               THEN ExitLoop("stagnation")
               ELSE pc' = "scroll" /\ UNCHANGED <<stop_reason, i, results>>
            /\ UNCHANGED last_places_count
       ELSE /\ consecutive_no_new' = 0
            /\ last_places_count' = Len(places)
            /\ pc' = "scroll"
            /\ UNCHANGED <<stop_reason, i, results>>
    /\ UNCHANGED <<argVars, feed, end_marker, places, processed_urls, firstSeen, iters,
                   added, epd_calls, epd_raised, exc, scrolls, search_calls,
                   direct_calls, warned, fieldVars>>

\* Lines 188-203.  outcome is what the adapter does: "no_container":
\* feed_scrollable.is_visible() is false; "raise_before": element_handle() or
\* evaluate raises before the feed moves; "raise_after": the feed scrolls and
\* the end-of-list probe raises; "end_of_list": the feed scrolls and the end
\* marker is visible; "ok": the feed scrolls and the marker is not visible.
ScrollIssuedM(outcome) == outcome \in {"end_of_list", "raise_after"}

ScrollIssued(outcome) == outcome \in {"ok", "end_of_list", "raise_after"}

\* Line 195: what the page can show of the end marker after the scroll, given
\* the answer of the probe (no answer when it raised).
MarkerShown(outcome) ==
    CASE outcome = "ok" -> {FALSE}
      [] outcome = "end_of_list" -> {TRUE}
      [] OTHER -> BOOLEAN

ScrollExit(outcome) ==
    CASE outcome = "no_container" -> "no_container"
      [] outcome = "raise_before" -> "scroll_error"
      [] outcome = "raise_after" -> "scroll_error"
      [] outcome = "end_of_list" -> "end_of_list"
      [] OTHER -> "none"

Scroll ==
    /\ pc = "scroll"
    /\ \E outcome \in {"no_container", "raise_before", "raise_after", "end_of_list", "ok"} :
         /\ IF ScrollIssued(outcome)
            THEN /\ feed' \in Snapshots
                 /\ end_marker' \in MarkerShown(outcome)
                 /\ scrolls' = scrolls + 1
            ELSE UNCHANGED <<feed, end_marker, scrolls>>
         /\ IF ScrollExit(outcome) = "none"
            THEN pc' = "while" /\ UNCHANGED <<stop_reason, i, results>>
            ELSE ExitLoop(ScrollExit(outcome))
    /\ UNCHANGED <<argVars, loopVars, epd_calls, epd_raised, exc, search_calls,
                   direct_calls, warned, fieldVars>>

\* Lines 210-214: a record is appended unless the extraction raised.
CollectM(rs, r) == IF r.raised THEN rs ELSE <<r.data>> \o rs

Collect(rs, r) == IF r.raised THEN rs ELSE Append(rs, r.data)

\* Lines 208-216 and 281-284: one turn of the batch loop, or the return to
\* main, which hands the list to save_data and closes the browser.  The page
\* leaves the search results when it navigates to a listing.
BatchStep ==
    /\ pc = "batch"
    /\ IF i > Len(places)
       THEN /\ pc' = "done"
            /\ UNCHANGED <<feed, end_marker, batchVars, warned>>
       ELSE \E pg \in ListingPages :
              LET place_url == places[i]
                  r == extract_place_details(place_url, extract_email, pg)
              IN  /\ epd_calls' = Append(epd_calls, place_url)
                  /\ epd_raised' = Append(epd_raised, r.raised)
                  /\ warned' = (warned \/ r.warned)
                  /\ results' = Collect(results, r)
                  /\ i' = i + 1
                  /\ feed' = <<>>
                  /\ end_marker' = FALSE
                  /\ pc' = "batch"
    /\ UNCHANGED <<argVars, loopVars, exc, scrolls, search_calls, direct_calls,
                   stop_reason, fieldVars>>

Next ==
    \/ Route
    \/ DirectExtract
    \/ SearchGoto
    \/ Cookie
    \/ LocateFeed
    \/ WhileTest
    \/ ForLink
    \/ Check
    \/ Scroll
    \/ BatchStep

Spec == Init /\ [][Next]_vars

\* main on every URL of the router's pool, with small targets.
RouteInit ==
    /\ pc = "main"
    /\ url \in UrlPool
    /\ max_results \in {0, 1}
    /\ extract_email \in BOOLEAN
    /\ exc = "none"
    /\ warned = FALSE
    /\ data = None
    /\ page = None
    /\ em = None
    /\ feed = <<>>
    /\ end_marker = FALSE
    /\ links = <<>>
    /\ idx = 0
    /\ places = <<>>
    /\ processed_urls = {}
    /\ last_places_count = 0
    /\ consecutive_no_new = 0
    /\ i = 0
    /\ results = <<>>
    /\ firstSeen = <<>>
    /\ iters = 0
    /\ scrolls = 0
    /\ added = 0
    /\ zeroRun = 0
    /\ epd_calls = <<>>
    /\ epd_raised = <<>>
    /\ search_calls = 0
    /\ direct_calls = 0
    /\ stop_reason = "none"

RouteSpec == RouteInit /\ [][Next]_vars

\* ---------------------------------- extract_place_details, block by block
\* The variables of main and of scrape_search_results, at rest.
HarvestIdle ==
    /\ max_results = 0
    /\ feed = <<>>
    /\ end_marker = FALSE
    /\ links = <<>>
    /\ idx = 0
    /\ places = <<>>
    /\ processed_urls = {}
    /\ last_places_count = 0
    /\ consecutive_no_new = 0
    /\ i = 0
    /\ results = <<>>
    /\ firstSeen = <<>>
    /\ iters = 0
    /\ scrolls = 0
    /\ added = 0
    /\ zeroRun = 0
    /\ epd_calls = <<>>
    /\ epd_raised = <<>>
    /\ search_calls = 0
    /\ direct_calls = 0
    /\ stop_reason = "none"

harvestVars ==
    <<max_results, feed, end_marker, loopVars, batchVars, scrolls, search_calls,
      direct_calls, stop_reason>>

ElemStates == {"visible", "hidden", "raises"}

HrefValues == {None, Some(""), Some("http://biz")}

Sites ==
    {QuietSite, MailSite, [QuietSite EXCEPT !.goto = "raise"]}

\* One call of extract_place_details on a listing URL.
ExtractInit ==
    /\ pc = "epd_goto"
    /\ url = LISTING_URL
    /\ extract_email \in BOOLEAN
    /\ exc = "none"
    /\ warned = FALSE
    /\ data = None
    /\ page = NoPage
    /\ em = None
    /\ HarvestIdle

\* What the page shows for field f, as the block that queries it finds it.
\* The text of an element that cannot be read, and the website of a listing
\* whose website is not fetched, are left at fixed values.
Shown(pg, f, state, text) == [pg EXCEPT !.elem[f] = state, !.text[f] = text]

\* Lines 55-72.
FieldGoto ==
    /\ pc = "epd_goto"
    /\ \E outcome \in {"ok", "timeout", "error"} :
         /\ page' = [page EXCEPT !.goto = outcome]
         /\ IF GotoRaises(outcome)
            THEN /\ pc' = "raised"
                 /\ exc' = "Error"
                 /\ UNCHANGED <<warned, data>>
            ELSE /\ pc' = "epd_name"
                 /\ warned' = (outcome = "timeout")
                 /\ data' = InitialData(url)
                 /\ UNCHANGED exc
    /\ UNCHANGED <<url, extract_email, em, harvestVars>>

\* Lines 75-80.
FieldCompanyName ==
    /\ pc = "epd_name"
    /\ \E state \in ElemStates :
         LET pg == Shown(page, "Company Name", state, TextOf["Company Name"])
         IN  /\ page' = pg
             /\ data' = CompanyNameBlock(data, pg)
    /\ pc' = "epd_rating"
    /\ UNCHANGED <<url, extract_email, exc, warned, em, harvestVars>>

\* Lines 83-97.
FieldRatingReviews ==
    /\ pc = "epd_rating"
    /\ \E rating \in ElemStates, reviews \in ElemStates, text \in ReviewTexts :
         /\ reviews # "visible" => text = TextOf["Review Count"]
         /\ LET pg == Shown(Shown(page, "Rating", rating, TextOf["Rating"]),
                         "Review Count", reviews, text)
            IN  /\ page' = pg
                /\ data' = RatingReviewsBlock(data, pg)
    /\ pc' = "epd_category"
    /\ UNCHANGED <<url, extract_email, exc, warned, em, harvestVars>>

\* Lines 100-105.
FieldCategory ==
    /\ pc = "epd_category"
    /\ \E state \in ElemStates :
         LET pg == Shown(page, "Category", state, TextOf["Category"])
         IN  /\ page' = pg
             /\ data' = CategoryBlock(data, pg)
    /\ pc' = "epd_address"
    /\ UNCHANGED <<url, extract_email, exc, warned, em, harvestVars>>

\* Lines 108-113.
FieldAddress ==
    /\ pc = "epd_address"
    /\ \E state \in ElemStates :
         LET pg == Shown(page, "Address", state, TextOf["Address"])
         IN  /\ page' = pg
             /\ data' = AddressBlock(data, pg)
    /\ pc' = "epd_phone"
    /\ UNCHANGED <<url, extract_email, exc, warned, em, harvestVars>>

\* Lines 116-121.
FieldPhone ==
    /\ pc = "epd_phone"
    /\ \E state \in ElemStates :
         LET pg == Shown(page, "Phone Number", state, TextOf["Phone Number"])
         IN  /\ page' = pg
             /\ data' = PhoneBlock(data, pg)
    /\ pc' = "epd_website"
    /\ UNCHANGED <<url, extract_email, exc, warned, em, harvestVars>>

\* Lines 124-129.
FieldWebsite ==
    /\ pc = "epd_website"
    /\ \E state \in ElemStates, href \in HrefValues :
         /\ state # "visible" => href = TextOf["Website"]
         /\ LET pg == Shown(page, "Website", state, href)
            IN  /\ page' = pg
                /\ data' = WebsiteBlock(data, pg)
    /\ pc' = "epd_email"
    /\ UNCHANGED <<url, extract_email, exc, warned, em, harvestVars>>

\* Lines 131-134.  em keeps the frame of the resolver call, if one was made.
FieldEmail ==
    /\ pc = "epd_email"
    /\ \E site \in Sites :
         /\ ~ResolverCalled(data, extract_email) => site = QuietSite
         /\ LET pg == [page EXCEPT !.site = site]
            IN  /\ page' = pg
                /\ data' = EmailBlock(data, extract_email, pg)
                /\ em' = IF ResolverCalled(data, extract_email)
                         THEN EmRun(EmStart(data["Website"]), site)
                         ELSE em
    /\ pc' = "returned"
    /\ UNCHANGED <<url, extract_email, exc, warned, harvestVars>>

ExtractNext ==
    \/ FieldGoto
    \/ FieldCompanyName
    \/ FieldRatingReviews
    \/ FieldCategory
    \/ FieldAddress
    \/ FieldPhone
    \/ FieldWebsite
    \/ FieldEmail

ExtractSpec == ExtractInit /\ [][ExtractNext]_vars

\* ------------------------------- extract_email_from_website, step by step
MatchLists == SeqsUpTo(EmailPool, MaxMatches)

\* One call of extract_email_from_website.
EmailInit ==
    /\ pc = "email"
    /\ em \in {EmStart(w) : w \in HrefValues}
    /\ url = LISTING_URL
    /\ extract_email = TRUE
    /\ exc = "none"
    /\ warned = FALSE
    /\ data = None
    /\ page = None
    /\ HarvestIdle

emailFrame ==
    <<pc, url, extract_email, exc, warned, data, page, harvestVars>>

EmailCheck ==
    /\ em # None
    /\ em.pc = "check"
    /\ em' = EmCheck(em)
    /\ UNCHANGED emailFrame

EmailNewPage ==
    /\ em # None
    /\ em.pc = "new_page"
    /\ \E outcome \in {"ok", "raise"} : em' = EmNewPage(em, outcome)
    /\ UNCHANGED emailFrame

EmailGoto ==
    /\ em # None
    /\ em.pc = "goto"
    /\ \E outcome \in {"ok", "raise"} : em' = EmGoto(em, outcome)
    /\ UNCHANGED emailFrame

EmailContent ==
    /\ em # None
    /\ em.pc = "content"
    /\ \/ em' = EmContent(em, "raise", <<>>)
       \/ \E matches \in MatchLists : em' = EmContent(em, "ok", matches)
    /\ UNCHANGED emailFrame

EmailClose ==
    /\ em # None
    /\ em.pc = "close"
    /\ \E outcome \in {"ok", "raise"} : em' = EmClose(em, outcome)
    /\ UNCHANGED emailFrame

EmailSelect ==
    /\ em # None
    /\ em.pc = "select"
    /\ em' = EmSelect(em)
    /\ UNCHANGED emailFrame

EmailExcept ==
    /\ em # None
    /\ em.pc = "except"
    /\ em' = EmExcept(em)
    /\ UNCHANGED emailFrame

EmailNext ==
    \/ EmailCheck
    \/ EmailNewPage
    \/ EmailGoto
    \/ EmailContent
    \/ EmailClose
    \/ EmailSelect
    \/ EmailExcept

EmailSpec == EmailInit /\ [][EmailNext]_vars

\* Calls of extract_place_details and calls of extract_email_from_website.
EnrichInit == ExtractInit \/ EmailInit

EnrichNext == ExtractNext \/ EmailNext

EnrichSpec == EnrichInit /\ [][EnrichNext]_vars

\* ------------------------------------------------------------ properties
AfterLoop == {"batch", "done"}

Max(a, b) == IF a >= b THEN a ELSE b

NoDuplicates(s) == \A a, b \in 1..Len(s) : a # b => s[a] # s[b]

\* C1: places holds each distinct non-empty href at most once, never an empty
\* href, and lists the hrefs in the order in which each was first read.
C1_DedupFirstSeen ==
    /\ NoDuplicates(places)
    /\ NoHref \notin Range(places)
    /\ places = firstSeen
    /\ Range(places) = processed_urls

\* C1 witness: a snapshot that shows twice an href already collected by an
\* earlier iteration has been read to its end.
C1_Witness ==
    /\ pc = "for"
    /\ iters >= 2
    /\ Len(links) = 2
    /\ idx = 3
    /\ links[1] = links[2]
    /\ links[1] \in Range(places)
    /\ added = 0

\* C2 as claimed: three consecutive iterations that add nothing stop the loop
\* at the third, below the target, and every finished iteration that added a
\* reference has reset the counter to zero.
C2_AsClaimed ==
    /\ zeroRun = STAGNATION_LIMIT =>
         /\ stop_reason = "stagnation"
         /\ pc \in AfterLoop
         /\ Len(places) < max_results
    /\ (pc \notin {"for", "check"} /\ added > 0) => consecutive_no_new = 0

\* C2 amended: three consecutive iterations that add nothing stop the loop at
\* the third, below the target, and not earlier; the references collected so
\* far go to extraction; a finished iteration that added a reference and left
\* len(places) below max_results has reset the counter to zero and has not
\* stopped the loop for stagnation.
C2_StagnationTermination ==
    /\ zeroRun <= STAGNATION_LIMIT
    /\ zeroRun = STAGNATION_LIMIT =>
         /\ stop_reason = "stagnation"
         /\ pc \in AfterLoop
         /\ Len(places) < max_results
    /\ stop_reason = "stagnation" =>
         /\ zeroRun = STAGNATION_LIMIT
         /\ pc = "done" => epd_calls = places
    /\ (pc \notin {"for", "check"} /\ added > 0 /\ Len(places) < max_results) =>
         /\ consecutive_no_new = 0
         /\ stop_reason # "stagnation"

\* C2 witness: two stagnant iterations, one that adds a reference, then three
\* stagnant ones: the loop went on after the third and stopped at the sixth.
C2_Witness ==
    /\ pc = "done"
    /\ stop_reason = "stagnation"
    /\ max_results = 2
    /\ Len(places) = 1
    /\ iters = 2 * STAGNATION_LIMIT
    /\ epd_calls = places

\* C3: len(places) never exceeds max(0, max_results), and once it has reached
\* max_results no reference is added and no scroll is issued (with
\* max_results <= 0 that is from the start).
C3_TargetCutoff ==
    /\ [](Len(places) <= Max(0, max_results))
    /\ [][Len(places) >= max_results =>
            /\ places' = places
            /\ processed_urls' = processed_urls
            /\ scrolls' = scrolls]_vars

\* C3 witness: the target was reached in the middle of a snapshot whose next
\* anchor carries a reference not seen so far.
C3_Witness ==
    /\ pc = "check"
    /\ max_results > 0
    /\ Len(places) = max_results
    /\ idx < Len(links)
    /\ links[idx + 1] # NoHref
    /\ links[idx + 1] \notin Range(places)

\* C4: a navigation timeout never leaves the program as an exception.
C4_TimeoutNeverSurfaced == ~(pc = "raised" /\ exc = "PlaywrightTimeoutError")

\* References whose extraction did not raise, in call order.
RECURSIVE Kept(_, _)
Kept(refs, flags) ==
    IF refs = <<>> THEN <<>>
    ELSE (IF Head(flags) THEN <<>> ELSE <<Head(refs)>>) \o Kept(Tail(refs), Tail(flags))

SourceUrls(rs) == [k \in 1..Len(rs) |-> rs[k]["Google Maps URL"][1]]

\* C7: the batch loop passes the collected references to
\* extract_place_details once each in collected order, and the records
\* returned are those of the references whose extraction did not raise, in
\* that order.
C7_BatchExtraction ==
    (search_calls > 0 /\ pc \in {"batch", "done"}) =>
        /\ epd_calls = SubSeq(places, 1, i - 1)
        /\ Len(epd_raised) = Len(epd_calls)
        /\ SourceUrls(results) = Kept(epd_calls, epd_raised)
        /\ pc = "done" => epd_calls = places

\* C7 witness: the extraction of the first of two references raised and the
\* second one was still extracted.
C7_Witness ==
    /\ pc = "done"
    /\ search_calls = 1
    /\ Len(places) = 2
    /\ epd_raised = <<TRUE, FALSE>>
    /\ SourceUrls(results) = <<places[2]>>

\* The loop's potential: it changes only at the stagnation test, and each
\* iteration that does not end the loop lowers it.
Potential ==
    STAGNATION_LIMIT * (Max(0, max_results) - last_places_count)
        + (STAGNATION_LIMIT - consecutive_no_new)

\* Steps left in the batch phase, and a number above all of them.
BatchRank == IF pc = "batch" THEN Len(places) - i + 2 ELSE 0

BatchTop == Max(0, max_results) + 3

\* Position inside one round scroll -> while -> for -> check.
RoundTop == MaxSnapLen + 8

RoundRank ==
    CASE pc = "scroll" -> MaxSnapLen + 6
      [] pc = "while" -> Len(feed) + 5
      [] pc = "for" -> Len(links) - idx + 4
      [] pc = "check" -> 2
      [] OTHER -> 0

\* A natural number that every step of the program lowers.
Rank ==
    CASE pc \in {"done", "raised"} -> 0
      [] pc = "batch" -> BatchRank
      [] pc = "direct" -> 2
      [] pc \in {"scroll", "while", "for", "check"} ->
            BatchTop + Potential * RoundTop + RoundRank
      [] pc = "locate" -> BatchTop + (Potential + 1) * RoundTop
      [] pc = "cookie" -> BatchTop + (Potential + 1) * RoundTop + 1
      [] pc = "search_goto" -> BatchTop + (Potential + 1) * RoundTop + 2
      [] pc = "main" -> BatchTop + (Potential + 1) * RoundTop + 3

\* C9: whatever the feed does, the while loop runs at most
\* 3 * max_results + 1 iterations, every step of the run lowers a natural
\* number (so the run is finite), the run is never stuck before its end,
\* and a run that entered scrape_search_results' loop ends by returning its
\* record list, never by an exception.
C9_HarvestCompletes ==
    /\ [](/\ iters <= STAGNATION_LIMIT * Max(0, max_results) + 1
          /\ Rank \in Nat
          /\ pc \notin {"done", "raised"} => ENABLED Next
          /\ (pc = "raised" /\ search_calls > 0) => (iters = 0 /\ feed = <<>>)
          /\ (pc = "done" /\ search_calls > 0) =>
                 (i = Len(places) + 1 /\ Len(results) <= Len(places)))
    /\ [][Rank' < Rank]_vars

\* C9 witness: a run with the longest loop (two stagnant iterations before
\* each growing one) has returned.
C9_Witness ==
    /\ pc = "done"
    /\ max_results = 2
    /\ iters = STAGNATION_LIMIT * max_results
    /\ Len(results) = 2

\* C10: a URL that contains /place/ or starts with the listing prefix gets
\* exactly one direct extract_place_details call, its record alone in the
\* result list, and no scrape_search_results call; any other URL gets
\* scrape_search_results and no direct call.
C10_Routing ==
    IF Contains(url, PLACE_MARKER) \/ StartsWith(url, PLACE_PREFIX)
    THEN /\ search_calls = 0
         /\ pc \in {"done", "raised"} =>
              /\ direct_calls = 1
              /\ epd_calls = <<url>>
         /\ pc = "done" =>
              /\ Len(results) = 1
              /\ results[1]["Google Maps URL"] = Some(url)
    ELSE /\ direct_calls = 0
         /\ pc # "main" => search_calls = 1

\* C10 witness: a URL that only contains /place/ was extracted directly.
C10_Witness ==
    /\ pc = "done"
    /\ ~StartsWith(url, PLACE_PREFIX)
    /\ direct_calls = 1
    /\ search_calls = 0
    /\ Len(results) = 1

\* Field g's element is visible and its read yields a value.
Readable(g) ==
    /\ page.elem[g] = "visible"
    /\ g = "Review Count" => \E k \in 1..Len(page.text[g]) : page.text[g][k] \in Range(DIGITS)
    /\ g = "Website" => page.text[g] # None

\* C5: when the adapter raises while one field is located or read, every
\* other field whose element is visible and readable is still populated.
C5_FieldIsolation ==
    pc = "returned" =>
        \A f, g \in ElemFields :
            (f # g /\ page.elem[f] = "raises" /\ Readable(g)) => data[g] # None

\* C6: whatever raises during the secondary fetch, the call returns None, and
\* on every return the close calls made equal the pages opened.
C6_ClosesEqualOpens ==
    em.pc = "done" =>
        /\ em.closes = em.opens
        /\ em.raisedAt # "none" => em.ret = None

\* e ends with suf, ignoring case.
EndsLike(e, suf) ==
    /\ Len(e) >= Len(suf)
    /\ \A k \in 1..Len(suf) : LowerChar(e[Len(e) - Len(suf) + k]) = suf[k]

\* e starts with pre, ignoring case.
StartsLike(e, pre) ==
    /\ Len(e) >= Len(pre)
    /\ \A k \in 1..Len(pre) : LowerChar(e[k]) = pre[k]

Least(S) == CHOOSE x \in S : \A y \in S : x <= y

\* C8: of the matches that do not end in an image suffix, the result is the
\* earliest one that starts with info@, contact@, hello@ or support@, else the
\* earliest one, else None.
C8_EmailSelection ==
    (em.pc = "done" /\ em.raisedAt = "none" /\ em.opens = 1) =>
        LET ms == em.emails
            kept == {j \in 1..Len(ms) : ~\E suf \in IMAGE_SUFFIXES : EndsLike(ms[j], suf)}
            preferred == {j \in kept : \E pre \in PREFERRED_PREFIXES : StartsLike(ms[j], pre)}
        IN  IF preferred # {} THEN em.ret = Some(ms[Least(preferred)])
            ELSE IF kept # {} THEN em.ret = Some(ms[Least(kept)])
            ELSE em.ret = None

\* C8 witness: the claim's example, [jobs@x.com, info@x.com, sales@x.com].
C8_Witness ==
    /\ em.pc = "done"
    /\ em.emails = << <<"j","o","b","s","@","x",".","c","o","m">>,
                      <<"i","n","f","o","@","x",".","c","o","m">>,
                      <<"s","a","l","e","s","@","x",".","c","o","m">> >>
    /\ em.ret = Some(<<"i","n","f","o","@","x",".","c","o","m">>)

\* C12: the exits are tried in the order target, end marker, stagnation,
\* container: an iteration that read the feed below the target with the end
\* marker visible stops on the end marker, so it never comes to count
\* stagnation and reach the scroll, and the loop never stops on stagnation
\* or on a missing container while the marker is visible.
C12_PriorityOrder ==
    /\ pc = "scroll" => ~end_marker
    /\ (pc = "batch" /\ i = 1 /\ stop_reason \in {"stagnation", "no_container"}) =>
          ~end_marker

\* C18: when the loop stops on the end marker, every non-empty href the feed
\* renders at that moment is in places.
C18_NothingLostAtEnd ==
    (stop_reason = "end_of_list" /\ pc = "batch" /\ i = 1) =>
        Range(feed) \ {NoHref} \subseteq Range(places)

\* C13: when the container is not visible at the scroll, or the scroll
\* raises, the loop stops and nothing is raised; every reference read so far,
\* the current iteration's included, is kept, and all of them are passed to
\* extraction before the call returns its (partial) list.
C13_StructuralFailure ==
    stop_reason \in {"no_container", "scroll_error"} =>
        /\ pc \in AfterLoop
        /\ exc = "none"
        /\ places = firstSeen
        /\ Len(places) < max_results
        /\ epd_calls = SubSeq(places, 1, i - 1)
        /\ pc = "done" =>
             /\ epd_calls = places
             /\ Len(results) = Len(Kept(places, epd_raised))

\* C13 witness: the container was gone in the iteration that read the first
\* reference, and that reference was extracted and returned.
C13_Witness ==
    /\ pc = "done"
    /\ stop_reason = "no_container"
    /\ iters = 1
    /\ added = 1
    /\ max_results = 2
    /\ Len(results) = 1

\* C14: an iteration that does not end the loop issues exactly one scroll,
\* after its read of the anchors and before the next read; an iteration that
\* ends the loop on the target, on stagnation or on a missing container
\* issues none.
C14_ScrollProtocol ==
    /\ pc = "while" => scrolls = iters
    /\ pc \in {"for", "check", "scroll"} => scrolls = iters - 1
    /\ stop_reason \in {"target", "stagnation", "no_container"} =>
          scrolls = Max(0, iters - 1)
    /\ stop_reason = "end_of_list" => scrolls = iters
    /\ stop_reason = "scroll_error" => scrolls \in {iters - 1, iters}

\* C14 witness: three stagnant iterations, two scrolls.
C14_Witness ==
    /\ pc = "done"
    /\ stop_reason = "stagnation"
    /\ iters = STAGNATION_LIMIT
    /\ scrolls = STAGNATION_LIMIT - 1

\* C16: in the list scrape_search_results builds, each record's source URL
\* is the reference it was extracted from, no two records share a source
\* URL, and there are at most max_results records.
C16_SourceUrlUnique ==
    (search_calls > 0 /\ pc \in AfterLoop) =>
        /\ Len(results) = Len(Kept(epd_calls, epd_raised))
        /\ \A k \in 1..Len(results) :
             results[k]["Google Maps URL"] = Some(Kept(epd_calls, epd_raised)[k])
        /\ NoDuplicates(SourceUrls(results))
        /\ Len(results) <= Max(0, max_results)

\* C16 witness: two records with different source URLs returned, their
\* references collected over two iterations.
C16_Witness ==
    /\ pc = "done"
    /\ search_calls = 1
    /\ Len(results) = 2
    /\ iters = 2
    /\ Len(feed) = 0
    /\ results[1]["Google Maps URL"] # results[2]["Google Maps URL"]

\* C19: processed_urls is the set of elements of places, of the same size,
\* and holds no empty href; consecutive_no_new is in 0..3 and
\* last_places_count is at most len(places); at the head of the loop the
\* counter is 0 if the iteration just finished added a reference.
C19_HarvestState ==
    /\ processed_urls = Range(places)
    /\ Cardinality(processed_urls) = Len(places)
    /\ NoHref \notin processed_urls
    /\ consecutive_no_new \in 0..STAGNATION_LIMIT
    /\ last_places_count <= Len(places)
    /\ (pc = "while" /\ added > 0) => consecutive_no_new = 0

\* C19 witness: back at the head of the loop after two stagnant iterations
\* and one that added a reference.
C19_Witness ==
    /\ pc = "while"
    /\ iters = STAGNATION_LIMIT
    /\ added = 1
    /\ Len(places) = 1
    /\ consecutive_no_new = 0

\* Every field's element is present and visible, or missing or not visible.
NoElementRaises == \A f \in ElemFields : page.elem[f] \in {"visible", "hidden"}

\* C11: extract_place_details raises only when the navigation fails with an
\* error other than a timeout; on a page where each element is visible or
\* not, the record has the nine keys, the source URL is the url argument, a
\* visible element's field holds the value read from it (for Review Count
\* the number parsed from the text, if it has a digit) and every other
\* field is None.
C11_AbsenceHandling ==
    /\ pc = "raised" => page.goto = "error"
    /\ (pc = "returned" /\ NoElementRaises) =>
         /\ DOMAIN data =
              {"Company Name", "Phone Number", "Email", "Website", "Rating",
               "Review Count", "Category", "Address", "Google Maps URL"}
         /\ data["Google Maps URL"] = Some(url)
         /\ \A f \in {"Company Name", "Rating", "Category", "Address", "Phone Number"} :
              data[f] = IF page.elem[f] = "visible" THEN Some(page.text[f]) ELSE None
         /\ data["Website"] =
              IF page.elem["Website"] = "visible" THEN page.text["Website"] ELSE None
         /\ page.elem["Review Count"] = "hidden" => data["Review Count"] = None
         /\ page.elem["Review Count"] = "visible" =>
              (data["Review Count"] # None <=>
                 \E k \in 1..Len(page.text["Review Count"]) :
                    page.text["Review Count"][k] \in Range(DIGITS))
         /\ ~extract_email => data["Email"] = None

\* C11 witness: a listing that shows its name, category and review count and
\* nothing else.
C11_Witness ==
    /\ pc = "returned"
    /\ page.elem = [f \in ElemFields |->
                      IF f \in {"Company Name", "Category", "Review Count"}
                      THEN "visible" ELSE "hidden"]
    /\ data["Company Name"] # None
    /\ data["Address"] = None

\* C15: extract_place_details calls the resolver exactly when extract_email
\* is set and Website holds a non-empty value, with that value, and stores
\* what it returns in Email; otherwise Email stays None and no page is
\* opened; the resolver called with no URL or an empty one returns None
\* without opening a page or navigating.
C15_EmailOptIn ==
    /\ pc \in {"epd_goto", "epd_name", "epd_rating", "epd_category",
               "epd_address", "epd_phone", "epd_website", "epd_email"} => em = None
    /\ pc = "returned" =>
         /\ em # None <=>
              (extract_email /\ data["Website"] # None /\ data["Website"] # Some(""))
         /\ em # None =>
              /\ em.pc = "done"
              /\ em.website_url = data["Website"]
              /\ data["Email"] = em.ret
         /\ em = None => data["Email"] = None
    /\ (pc = "email" /\ (em.website_url = None \/ em.website_url = Some(""))) =>
         /\ em.pc \in {"check", "done"}
         /\ em.opens = 0
         /\ em.closes = 0
         /\ em.raisedAt = "none"
         /\ em.ret = None

\* C15 witness: the resolver was called for a listing with a website and
\* its result was stored in Email.
C15_Witness ==
    /\ pc = "returned"
    /\ extract_email
    /\ em # None
    /\ em.opens = 1
    /\ data["Email"] = Some(<<"i","n","f","o","@","x",".","c","o","m">>)

\* The number written by a string of decimal digits.
DigitOf ==
    [c \in {"0","1","2","3","4","5","6","7","8","9"} |->
        CASE c = "0" -> 0 [] c = "1" -> 1 [] c = "2" -> 2 [] c = "3" -> 3
          [] c = "4" -> 4 [] c = "5" -> 5 [] c = "6" -> 6 [] c = "7" -> 7
          [] c = "8" -> 8 [] c = "9" -> 9]

RECURSIVE DecimalValue(_)
DecimalValue(ds) ==
    IF ds = <<>> THEN 0
    ELSE DigitOf[Head(ds)] * 10 ^ (Len(ds) - 1) + DecimalValue(Tail(ds))

\* C17: when the Review Count element is read, the field is the number
\* written by all the digits of its text, in order ("(1,234 reviews)" gives
\* 1234), and stays None when the text has no digit; the block goes on and
\* Rating keeps what was read.
C17_ReviewCountParsing ==
    (page # None /\ page.elem["Review Count"] = "visible" /\ page.elem["Rating"] # "raises") =>
        LET text == page.text["Review Count"]
            digits == SelectSeq(text, LAMBDA c : c \in DOMAIN DigitOf)
        IN  /\ pc # "raised"
            /\ data["Review Count"] =
                 IF digits = <<>> THEN None ELSE Some(DecimalValue(digits))
            /\ text = <<"(","1",",","2","3","4"," ","r","e","v","i","e","w","s",")">> =>
                 data["Review Count"] = Some(1234)
            /\ page.elem["Rating"] = "visible" => data["Rating"] = Some(page.text["Rating"])

\* C17 witness: the text "7 of 10", two digit runs, was parsed to 710.
C17_Witness ==
    /\ pc = "returned"
    /\ page.text["Review Count"] = <<"7"," ","o","f"," ","1","0">>
    /\ data["Review Count"] = Some(710)

====
